---- MODULE Spec2Model ----
(***************************************************************************)
(* Geometry::Bezier (src/src/geometry/bezier/deCasteljau.h): the de        *)
(* Casteljau recurrence, the blossom, single-point subdivision and batch   *)
(* subdivision over the flat triangular DeCasteljauScheme.                 *)
(*                                                                         *)
(* Point is a template parameter of the code; here it is the integers, an  *)
(* affine space in which  p1 + t * (p2 - p1)  is exact.  The scalar `t` is *)
(* an integer as well.  C++ indices are 0-based, TLA+ sequences 1-based:   *)
(* the C++ element v[k] is v[k + 1] here.                                  *)
(***************************************************************************)
EXTENDS Integers, Sequences, FiniteSets

\* Largest control polygon of a call.
MaxLen == 3
\* Coordinates of the input points are 0..MaxCoord.
MaxCoord == 1
\* Parameters (t0, t1, blossom parameters) are -1..MaxT: inside and outside [0,1].
MaxT == 2
\* Largest control polygon of a call in the step-counting specification.
MaxCostLen == 6

Point == 0..MaxCoord
Scalar == -1..MaxT

SeqsOf(S, lo, hi) == UNION {[1..n -> S] : n \in lo..hi}

VARIABLES
  op,          \* the function called
  points,      \* argument: the control polygon
  params,      \* argument of blossom: the parameter list
  idx,         \* argument of single-point subdivide
  t0, t1,      \* arguments of both subdivide overloads
  pc,          \* position in the function's body
  work,        \* the by-value copy of `points` the function overwrites
  iteration,   \* `iteration` / `iterationIdx`
  pointIdx,    \* `pointIdx` of batch subdivide
  newPointIdx, \* `newPointIdx` of batch subdivide
  mScheme,     \* DeCasteljauScheme::mScheme
  newPoints,   \* `newPoints` of batch subdivide
  result,      \* <<>> until a Point is returned, then <<the point>>
  steps,       \* history: evaluations of p1 + t * (p2 - p1) so far
  used,        \* history: per executed outer iteration, which parameter it used
  oob,         \* history: an element outside 0..N-1 of a vector was accessed
  accessOk     \* history: every scheme(col, idx) so far addressed a stored entry

vars == <<op, points, params, idx, t0, t1, pc, work, iteration, pointIdx,
          newPointIdx, mScheme, newPoints, result, steps, used, oob, accessOk>>

numPoints == Len(points)

-----------------------------------------------------------------------------
\* The affine combination every function evaluates.

LerpSwapped(p1, p2, t) == p2 + t * (p1 - p2)

Lerp(p1, p2, t) == p1 + t * (p2 - p1)

\* for (pointIdx = from; pointIdx < bound; ++pointIdx)
\*   points[pointIdx] = points[pointIdx] + t * (points[pointIdx + 1] - points[pointIdx]);
RECURSIVE InnerLoopDown(_, _, _, _)
InnerLoopDown(pts, t, from, bound) ==
  IF from < bound
    THEN LET rest == InnerLoopDown(pts, t, from + 1, bound)
         IN  [rest EXCEPT ![from + 1] = Lerp(rest[from + 1], rest[from + 2], t)]
    ELSE pts

RECURSIVE InnerLoop(_, _, _, _)
InnerLoop(pts, t, from, bound) ==
  IF from < bound
    THEN InnerLoop([pts EXCEPT ![from + 1] = Lerp(pts[from + 1], pts[from + 2], t)],
                   t, from + 1, bound)
    ELSE pts

\* Number of interpolations one run of the inner loop performs.
InnerCount(bound) == IF bound > 0 THEN bound ELSE 0

-----------------------------------------------------------------------------
\* deCasteljau(points, t)

RECURSIVE DeCasteljauLoop(_, _, _)
DeCasteljauLoop(pts, t, it) ==
  IF it < Len(pts)
    THEN DeCasteljauLoop(InnerLoop(pts, t, 0, Len(pts) - it), t, it + 1)
    ELSE pts

DeCasteljau(pts, t) == DeCasteljauLoop(pts, t, 1)[1]

-----------------------------------------------------------------------------
\* blossom(points, params)

\* size_t values: v when not wrapped, 2^64 - v when wrapped.
SizeT(n) == [wrapped |-> FALSE, v |-> n]

\* points.size() - 1 in unsigned arithmetic: 0 - 1 wraps to 2^64 - 1.
SizeMinusOne(n) == IF n >= 1 THEN [wrapped |-> FALSE, v |-> n - 1]
                             ELSE [wrapped |-> TRUE, v |-> 1]

AssertConditionOff(pts, prm) == TRUE

\* assert( params.size() == points.size() - 1 );
AssertCondition(pts, prm) == SizeT(Len(prm)) = SizeMinusOne(Len(pts))

\* params[iteration - 1]
BlossomParam(prm, it) == prm[it]

RECURSIVE BlossomLoop(_, _, _)
BlossomLoop(pts, prm, it) ==
  IF it < Len(pts)
    THEN BlossomLoop(InnerLoop(pts, BlossomParam(prm, it), 0, Len(pts) - it), prm, it + 1)
    ELSE pts

\* The value blossom returns when its assertion holds.
Blossom(pts, prm) == BlossomLoop(pts, prm, 1)[1]

InitBlossom ==
  /\ op = "blossom"
  /\ points \in SeqsOf(Point, 0, MaxLen)
  /\ params \in SeqsOf(Scalar, 0, MaxLen - 1)
  /\ idx = 0 /\ t0 = 0 /\ t1 = 0
  /\ pc = "assert"
  /\ work = points
  /\ iteration = 0 /\ pointIdx = 0 /\ newPointIdx = 0
  /\ mScheme = <<>> /\ newPoints = <<>> /\ result = <<>>
  /\ steps = 0 /\ used = <<>> /\ oob = FALSE /\ accessOk = TRUE

BlossomAssertFails ==
  /\ op = "blossom" /\ pc = "assert"
  /\ ~AssertCondition(points, params)
  /\ pc' = "aborted"
  /\ UNCHANGED <<op, points, params, idx, t0, t1, work, iteration, pointIdx,
                 newPointIdx, mScheme, newPoints, result, steps, used, oob, accessOk>>

BlossomAssertHolds ==
  /\ op = "blossom" /\ pc = "assert"
  /\ AssertCondition(points, params)
  /\ pc' = "loop"
  /\ iteration' = 1
  /\ UNCHANGED <<op, points, params, idx, t0, t1, work, pointIdx,
                 newPointIdx, mScheme, newPoints, result, steps, used, oob, accessOk>>

BlossomIteration ==
  /\ op = "blossom" /\ pc = "loop"
  /\ iteration < numPoints
  /\ work' = InnerLoop(work, BlossomParam(params, iteration), 0, numPoints - iteration)
  /\ steps' = steps + InnerCount(numPoints - iteration)
  /\ iteration' = iteration + 1
  /\ UNCHANGED <<op, points, params, idx, t0, t1, pc, pointIdx,
                 newPointIdx, mScheme, newPoints, result, used, oob, accessOk>>

\* return points[0]; an empty vector has no element 0.
BlossomReturn ==
  /\ op = "blossom" /\ pc = "loop"
  /\ ~(iteration < numPoints)
  /\ pc' = "done"
  /\ IF numPoints >= 1
       THEN result' = <<work[1]>> /\ oob' = oob
       ELSE \E g \in Point : result' = <<g>> /\ oob' = TRUE
  /\ UNCHANGED <<op, points, params, idx, t0, t1, work, iteration, pointIdx,
                 newPointIdx, mScheme, newPoints, steps, used, accessOk>>

-----------------------------------------------------------------------------
\* subdivide(points, idx, t0, t1): one point of the new polygon

EndT0OffByOne(pts, i) == Len(pts) - i + 1

\* int endT0 = points.size() - idx;
EndT0(pts, i) == Len(pts) - i

RECURSIVE SubdivideT0Loop(_, _, _, _)
SubdivideT0Loop(pts, t, it, end) ==
  IF it < end
    THEN SubdivideT0Loop(InnerLoop(pts, t, 0, Len(pts) - it), t, it + 1, end)
    ELSE pts

RECURSIVE SubdivideT1Loop(_, _, _)
SubdivideT1Loop(pts, t, it) ==
  IF it < Len(pts)
    THEN SubdivideT1Loop(InnerLoop(pts, t, 0, Len(pts) - it), t, it + 1)
    ELSE pts

\* The value single-point subdivide returns for 0 <= idx < points.size().
SubdividePoint(pts, i, a, b) ==
  SubdivideT1Loop(SubdivideT0Loop(pts, a, 1, EndT0(pts, i)), b, EndT0(pts, i))[1]

InitSubdividePoint ==
  /\ op = "subdividePoint"
  /\ points \in SeqsOf(Point, 1, MaxLen)
  /\ params = <<>>
  /\ idx \in -1..MaxLen
  /\ t0 \in Scalar /\ t1 \in Scalar
  /\ pc = "t0loop"
  /\ work = points
  /\ iteration = 1 /\ pointIdx = 0 /\ newPointIdx = 0
  /\ mScheme = <<>> /\ newPoints = <<>> /\ result = <<>>
  /\ steps = 0 /\ used = <<>> /\ oob = FALSE /\ accessOk = TRUE

\* First loop body; for iteration >= 1 the inner loop stays inside the vector.
SubdividePointT0 ==
  /\ op = "subdividePoint" /\ pc = "t0loop"
  /\ iteration < EndT0(points, idx)
  /\ work' = InnerLoop(work, t0, 0, numPoints - iteration)
  /\ steps' = steps + InnerCount(numPoints - iteration)
  /\ used' = Append(used, "t0")
  /\ iteration' = iteration + 1
  /\ UNCHANGED <<op, points, params, idx, t0, t1, pc, pointIdx,
                 newPointIdx, mScheme, newPoints, result, oob, accessOk>>

\* First loop exit; the second loop starts at iteration = endT0.
SubdividePointSwitch ==
  /\ op = "subdividePoint" /\ pc = "t0loop"
  /\ ~(iteration < EndT0(points, idx))
  /\ iteration' = EndT0(points, idx)
  /\ pc' = "t1loop"
  /\ UNCHANGED <<op, points, params, idx, t0, t1, work, pointIdx,
                 newPointIdx, mScheme, newPoints, result, steps, used, oob, accessOk>>

\* Second loop body with iteration >= 1: every index is inside the vector.
SubdividePointT1 ==
  /\ op = "subdividePoint" /\ pc = "t1loop"
  /\ iteration < numPoints
  /\ iteration >= 1
  /\ work' = InnerLoop(work, t1, 0, numPoints - iteration)
  /\ steps' = steps + InnerCount(numPoints - iteration)
  /\ used' = Append(used, "t1")
  /\ iteration' = iteration + 1
  /\ UNCHANGED <<op, points, params, idx, t0, t1, pc, pointIdx,
                 newPointIdx, mScheme, newPoints, result, oob, accessOk>>

\* Second loop body with iteration <= 0 (idx >= points.size()): pointIdx runs
\* to numPoints - iteration - 1 >= numPoints - 1, so points[pointIdx + 1] is
\* read past the end and, for iteration < 0, points[pointIdx] is written past
\* the end.  Undefined behaviour: the run aborts, or it goes on with whatever
\* value g lies behind the vector (stores behind the vector do not change the
\* vector's own elements).
SubdividePointT1OutOfRange ==
  /\ op = "subdividePoint" /\ pc = "t1loop"
  /\ iteration < numPoints
  /\ iteration < 1
  /\ oob' = TRUE
  /\ \/ /\ pc' = "crashed"
        /\ UNCHANGED <<work, steps, used, iteration>>
     \/ /\ \E g \in Point :
             LET w == InnerLoop(work, t1, 0, numPoints - 1)
             IN  work' = [w EXCEPT ![numPoints] = Lerp(w[numPoints], g, t1)]
        /\ steps' = steps + InnerCount(numPoints - iteration)
        /\ used' = Append(used, "t1")
        /\ iteration' = iteration + 1
        /\ pc' = pc
  /\ UNCHANGED <<op, points, params, idx, t0, t1, pointIdx,
                 newPointIdx, mScheme, newPoints, result, accessOk>>

\* return points[0];
SubdividePointReturn ==
  /\ op = "subdividePoint" /\ pc = "t1loop"
  /\ ~(iteration < numPoints)
  /\ result' = <<work[1]>>
  /\ pc' = "done"
  /\ UNCHANGED <<op, points, params, idx, t0, t1, work, iteration, pointIdx,
                 newPointIdx, mScheme, newPoints, steps, used, oob, accessOk>>

-----------------------------------------------------------------------------
\* DeCasteljauScheme

Idx0NoPlusOne(col) == ((2 * numPoints - col) * col) \div 2

\* int idx0 = ((2 * mNumPoints - col + 1) * col) / 2;
Idx0(col) == ((2 * numPoints - col + 1) * col) \div 2

\* The flat index operator()(col, idx) addresses.
SchemeIndex(col, i) == Idx0(col) + i

\* The index addresses an element of mScheme.
Stored(k) == 0 <= k /\ k < Len(mScheme)

\* operator()(col, idx) as an rvalue; g is what lies outside the storage.
SchemeGet(col, i, g) ==
  IF Stored(SchemeIndex(col, i)) THEN mScheme[SchemeIndex(col, i) + 1] ELSE g

\* last(): mScheme[mScheme.size() - 1]
SchemeLast(g) == IF Len(mScheme) >= 1 THEN mScheme[Len(mScheme)] ELSE g

-----------------------------------------------------------------------------
\* subdivide(points, t0, t1): the whole new polygon

PassStartLastColumn(k) == numPoints - 1

\* int iterationIdx = numPoints - newPointIdx
PassStart(k) == numPoints - k

FillParamT1 == t1

\* The scalar of the fill: p1 + t0 * (p2 - p1)
FillParam == t0

RecomputeParamT0 == t0

\* The scalar of the recomputation passes: p1 + t1 * (p2 - p1)
RecomputeParam == t1

\* ++pointIdx, and at the end of the inner loop ++iterationIdx with pointIdx = 0
NextPointIdx == IF pointIdx + 1 < numPoints - iteration THEN pointIdx + 1 ELSE 0
NextIterationIdx == IF pointIdx + 1 < numPoints - iteration THEN iteration
                                                            ELSE iteration + 1

InitSubdivide(maxLen, domain) ==
  /\ op = "subdivide"
  /\ points \in SeqsOf(domain, 1, maxLen)
  /\ params = <<>>
  /\ idx = 0
  /\ t0 \in Scalar /\ t1 \in Scalar
  /\ pc = "fill"
  /\ work = <<>>
  /\ iteration = 1 /\ pointIdx = 0 /\ newPointIdx = 0
  /\ mScheme = points
  /\ newPoints = <<>> /\ result = <<>>
  /\ steps = 0 /\ used = <<>> /\ oob = FALSE /\ accessOk = TRUE

\* One body of the fill loops: scheme.push_back(p1 + t0 * (p2 - p1))
SubdivideFill ==
  /\ op = "subdivide" /\ pc = "fill"
  /\ iteration < numPoints
  /\ \E g \in Point :
       LET p1 == SchemeGet(iteration - 1, pointIdx, g)
           p2 == SchemeGet(iteration - 1, pointIdx + 1, g)
       IN  mScheme' = Append(mScheme, Lerp(p1, p2, FillParam))
  /\ accessOk' = (accessOk /\ Stored(SchemeIndex(iteration - 1, pointIdx))
                           /\ Stored(SchemeIndex(iteration - 1, pointIdx + 1)))
  /\ steps' = steps + 1
  /\ pointIdx' = NextPointIdx
  /\ iteration' = NextIterationIdx
  /\ UNCHANGED <<op, points, params, idx, t0, t1, pc, work,
                 newPointIdx, newPoints, result, used, oob>>

\* The fill loops are over: newPoints.push_back(scheme.last()), newPointIdx = 1
SubdivideFirst ==
  /\ op = "subdivide" /\ pc = "fill"
  /\ ~(iteration < numPoints)
  /\ \E g \in Point : newPoints' = Append(newPoints, SchemeLast(g))
  /\ newPointIdx' = 1
  /\ pc' = "outer"
  /\ UNCHANGED <<op, points, params, idx, t0, t1, work, iteration, pointIdx,
                 mScheme, result, steps, used, oob, accessOk>>

\* newPointIdx < numPoints: the pass starts at column numPoints - newPointIdx
SubdividePass ==
  /\ op = "subdivide" /\ pc = "outer"
  /\ newPointIdx < numPoints
  /\ iteration' = PassStart(newPointIdx)
  /\ pointIdx' = 0
  /\ pc' = "recompute"
  /\ UNCHANGED <<op, points, params, idx, t0, t1, work,
                 newPointIdx, mScheme, newPoints, result, steps, used, oob, accessOk>>

\* One body of the recomputation loops: scheme(iterationIdx, pointIdx) = p1 + t1 * (p2 - p1)
SubdivideRecompute ==
  /\ op = "subdivide" /\ pc = "recompute"
  /\ iteration < numPoints
  /\ \E g \in Point :
       LET p1 == SchemeGet(iteration - 1, pointIdx, g)
           p2 == SchemeGet(iteration - 1, pointIdx + 1, g)
           k  == SchemeIndex(iteration, pointIdx)
       IN  mScheme' = IF Stored(k) THEN [mScheme EXCEPT ![k + 1] = Lerp(p1, p2, RecomputeParam)]
                                   ELSE mScheme
  /\ accessOk' = (accessOk /\ Stored(SchemeIndex(iteration - 1, pointIdx))
                           /\ Stored(SchemeIndex(iteration - 1, pointIdx + 1))
                           /\ Stored(SchemeIndex(iteration, pointIdx)))
  /\ steps' = steps + 1
  /\ pointIdx' = NextPointIdx
  /\ iteration' = NextIterationIdx
  /\ UNCHANGED <<op, points, params, idx, t0, t1, pc, work,
                 newPointIdx, newPoints, result, used, oob>>

\* The pass is over: newPoints.push_back(scheme.last()), ++newPointIdx
SubdivideNext ==
  /\ op = "subdivide" /\ pc = "recompute"
  /\ ~(iteration < numPoints)
  /\ \E g \in Point : newPoints' = Append(newPoints, SchemeLast(g))
  /\ newPointIdx' = newPointIdx + 1
  /\ pc' = "outer"
  /\ UNCHANGED <<op, points, params, idx, t0, t1, work, iteration, pointIdx,
                 mScheme, result, steps, used, oob, accessOk>>

\* return newPoints;
SubdivideReturn ==
  /\ op = "subdivide" /\ pc = "outer"
  /\ ~(newPointIdx < numPoints)
  /\ pc' = "done"
  /\ UNCHANGED <<op, points, params, idx, t0, t1, work, iteration, pointIdx,
                 newPointIdx, mScheme, newPoints, result, steps, used, oob, accessOk>>

NextSubdivide ==
  \/ SubdivideFill
  \/ SubdivideFirst
  \/ SubdividePass
  \/ SubdivideRecompute
  \/ SubdivideNext
  \/ SubdivideReturn

-----------------------------------------------------------------------------
\* A call of any of the functions, run to its end.

Init ==
  \/ InitBlossom
  \/ InitSubdividePoint
  \/ InitSubdivide(MaxLen, Point)

Next ==
  \/ BlossomAssertFails
  \/ BlossomAssertHolds
  \/ BlossomIteration
  \/ BlossomReturn
  \/ SubdividePointT0
  \/ SubdividePointSwitch
  \/ SubdividePointT1
  \/ SubdividePointT1OutOfRange
  \/ SubdividePointReturn
  \/ SubdivideFill
  \/ SubdivideFirst
  \/ SubdividePass
  \/ SubdivideRecompute
  \/ SubdivideNext
  \/ SubdivideReturn

Spec == Init /\ [][Next]_vars

\* Batch subdivide alone, on polygons of up to MaxCostLen points with
\* coordinates 0 and 1, for counting its interpolation steps.
InitCost == InitSubdivide(MaxCostLen, {0, 1})

SpecCost == InitCost /\ [][NextSubdivide]_vars

-----------------------------------------------------------------------------
\* Properties

\* n copies of x
Repeat(x, n) == [i \in 1..n |-> x]

\* (n - 1 - k) copies of a followed by k copies of b
TrailingParams(n, k, a, b) == Repeat(a, n - 1 - k) \o Repeat(b, k)

\* The permutations of 1..n
Permutations(n) == {f \in [1..n -> 1..n] : \A i, j \in 1..n : f[i] = f[j] => i = j}

SubdivideDone == op = "subdivide" /\ pc = "done"
BlossomDone == op = "blossom" /\ pc = "done"
SubdividePointDone == op = "subdividePoint" /\ pc = "done"
IdxInRange == 0 <= idx /\ idx < numPoints

\* C1: batch subdivide(P, t0, t1) returns exactly N points, and its idx-th
\* point is what single-point subdivide(P, idx, t0, t1) returns, for every
\* idx in 0..N-1.
C1_BatchEqualsSinglePoint ==
  SubdivideDone =>
    /\ Len(newPoints) = numPoints
    /\ \A i \in 0..(numPoints - 1) :
         newPoints[i + 1] = SubdividePoint(points, i, t0, t1)

C1_Witness ==
  /\ SubdivideDone
  /\ numPoints = 3
  /\ t0 = -1 /\ t1 = 2
  /\ newPoints # points
  /\ newPoints[2] # newPoints[1] /\ newPoints[2] # newPoints[3]

\* C2: the polygon batch subdivide returns, evaluated at s, is the original
\* polygon evaluated at t0 + s * (t1 - t0), for every s inside and outside [0,1].
C2_SubdivisionKeepsCurve ==
  SubdivideDone =>
    \A s \in Scalar :
      DeCasteljau(newPoints, s) = DeCasteljau(points, t0 + s * (t1 - t0))

C2_Witness ==
  /\ SubdivideDone
  /\ numPoints = 3
  /\ t0 = 2 /\ t1 = 0
  /\ DeCasteljau(newPoints, -1) # DeCasteljau(points, -1)
  /\ DeCasteljau(newPoints, -1) = DeCasteljau(points, 4)

\* C3: the k-th point batch subdivide returns is the blossom of P at
\* (N-1-k) copies of t0 followed by k copies of t1; point 0 is
\* deCasteljau(P, t0) and point N-1 is deCasteljau(P, t1).
C3_BatchPointsAreBlossoms ==
  SubdivideDone =>
    /\ \A k \in 0..(numPoints - 1) :
         newPoints[k + 1] = Blossom(points, TrailingParams(numPoints, k, t0, t1))
    /\ newPoints[1] = DeCasteljau(points, t0)
    /\ newPoints[numPoints] = DeCasteljau(points, t1)

C3_Witness ==
  /\ SubdivideDone
  /\ numPoints = 3
  /\ t0 = 0 /\ t1 = 2
  /\ newPoints[2] = Blossom(points, <<0, 2>>)
  /\ newPoints[2] # newPoints[1] /\ newPoints[3] # newPoints[2]

\* C4: blossom(P, (N-1-k) zeros then k ones) returns P[k] for every k in
\* 0..N-1; deCasteljau(P, 0) = P[0] and deCasteljau(P, 1) = P[N-1].
C4_BlossomCorners ==
  /\ BlossomDone =>
       \A k \in 0..(numPoints - 1) :
         params = TrailingParams(numPoints, k, 0, 1) => result = <<points[k + 1]>>
  /\ numPoints >= 1 =>
       /\ DeCasteljau(points, 0) = points[1]
       /\ DeCasteljau(points, 1) = points[numPoints]

C4_Witness ==
  /\ BlossomDone
  /\ numPoints = 3
  /\ params = <<0, 1>>
  /\ points = <<0, 1, 0>>
  /\ result = <<1>>

\* C5: blossom(P, params) is the same for every permutation of params.
C5_BlossomSymmetric ==
  BlossomDone =>
    \A f \in Permutations(Len(params)) :
      Blossom(points, [i \in 1..Len(params) |-> params[f[i]]]) = result[1]

C5_Witness ==
  /\ BlossomDone
  /\ numPoints = 3
  /\ params = <<2, -1>>
  /\ points = <<0, 1, 0>>
  /\ result = <<Blossom(points, <<-1, 2>>)>>

\* C6: single-point subdivide called with idx < 0 or idx >= N fails fast: it
\* returns no point, and it reads no element outside 0..N-1.
C6_BadIdxFailsFast ==
  (op = "subdividePoint" /\ ~IdxInRange) =>
    /\ pc # "done"
    /\ result = <<>>
    /\ ~oob

\* With idx < 0 the call returns what idx = 0 returns.
NegativeIdxReturnsPointZero ==
  (SubdividePointDone /\ idx < 0) => result = <<SubdividePoint(points, 0, t0, t1)>>

\* With idx >= N the call accesses elements behind the vector.
LargeIdxLeavesVector ==
  (op = "subdividePoint" /\ idx >= numPoints /\ pc \in {"done", "crashed"}) => oob

\* Interpolations of N single-point subdivide calls on N points.
NaiveSteps(n) == n * ((n * (n - 1)) \div 2)

\* C7: batch subdivide on N points performs at most c * N^2 interpolations,
\* here with c = 1.
C7_BatchStepsQuadratic ==
  SubdivideDone => steps <= numPoints * numPoints

\* The number of interpolations of batch subdivide is N(N-1)(N+4)/6, which is
\* at least a third of the naive N * N(N-1)/2.
BatchStepsExact ==
  SubdivideDone =>
    /\ 6 * steps = numPoints * (numPoints - 1) * (numPoints + 4)
    /\ 3 * steps >= NaiveSteps(numPoints)

\* C8: blossom called with params.size() != P.size() - 1 (an empty P
\* included) fails its assertion before any interpolation and before any
\* point is returned; with params.size() = P.size() - 1 and P.size() >= 1
\* the assertion never fails.
C8_BlossomAssertion ==
  op = "blossom" =>
    /\ (numPoints = 0 \/ Len(params) # numPoints - 1) =>
         /\ pc \in {"assert", "aborted"}
         /\ steps = 0
         /\ result = <<>>
         /\ work = points
    /\ (numPoints >= 1 /\ Len(params) = numPoints - 1) => pc # "aborted"

C8_Witness ==
  /\ op = "blossom"
  /\ pc = "aborted"
  /\ points = <<>>
  /\ params = <<>>

\* C9: scheme addressing agrees with append order.  The entry the fill
\* appends for (column c, row i) lands at flat index c(2N-c+1)/2 + i, which
\* is the index scheme(c, i) addresses; every scheme(c-1, i), scheme(c-1, i+1)
\* and scheme(c, i) of the fill and of the recomputation passes addresses a
\* stored entry; the fill ends with N(N+1)/2 entries, the last of them entry
\* (N-1, 0).
C9_SchemeAddressing ==
  op = "subdivide" =>
    /\ accessOk
    /\ (pc = "fill" /\ iteration < numPoints) =>
         /\ Len(mScheme) = (iteration * (2 * numPoints - iteration + 1)) \div 2 + pointIdx
         /\ SchemeIndex(iteration, pointIdx) = Len(mScheme)
         /\ Stored(SchemeIndex(iteration - 1, pointIdx))
         /\ Stored(SchemeIndex(iteration - 1, pointIdx + 1))
    /\ (pc = "recompute" /\ iteration < numPoints) =>
         /\ Stored(SchemeIndex(iteration - 1, pointIdx))
         /\ Stored(SchemeIndex(iteration - 1, pointIdx + 1))
         /\ Stored(SchemeIndex(iteration, pointIdx))
    /\ ~(pc = "fill" /\ iteration < numPoints) =>
         /\ Len(mScheme) = (numPoints * (numPoints + 1)) \div 2
         /\ SchemeIndex(numPoints - 1, 0) = Len(mScheme) - 1

C9_Witness ==
  /\ op = "subdivide"
  /\ pc = "recompute"
  /\ numPoints = 3
  /\ newPointIdx = 2
  /\ iteration = 1 /\ pointIdx = 1
  /\ Len(mScheme) = 6
  /\ steps = 5

\* The parameters the outer iterations used so far: a times t0, then b times t1.
UsedIs(a, b) == used = Repeat("t0", a) \o Repeat("t1", b)

\* C10 as stated: the first (N - idx) iterations use t0, the remaining idx use t1.
C10_AsStated ==
  (SubdividePointDone /\ IdxInRange) => UsedIs(numPoints - idx, idx)

\* C10: for 0 <= idx < N, single-point subdivide runs the first N - idx - 1
\* iterations with t0 and then the remaining idx iterations with t1, every t0
\* iteration before every t1 iteration; N - 1 iterations in all.  The point
\* returned is the blossom at (N-1-idx) copies of t0 then idx copies of t1.
C10_T0ThenT1 ==
  (op = "subdividePoint" /\ IdxInRange) =>
    /\ \E a \in 0..(numPoints - idx - 1) : \E b \in 0..idx :
         /\ UsedIs(a, b)
         /\ b > 0 => a = numPoints - idx - 1
    /\ pc = "done" =>
         /\ UsedIs(numPoints - idx - 1, idx)
         /\ result = <<Blossom(points, TrailingParams(numPoints, idx, t0, t1))>>

C10_Witness ==
  /\ SubdividePointDone
  /\ numPoints = 3
  /\ idx = 1
  /\ used = <<"t0", "t1">>
  /\ t0 # t1

====
